---- MODULE Spec2Model ----
(***************************************************************************)
(* WHO Growth Reference 2007 z-score calculator (who_zscore.py).           *)
(*                                                                         *)
(* The module is a pure function calc_who_zscore over a reference table    *)
(* loaded once at import.  One behaviour of the model is one call: Init    *)
(* draws the loaded table and the four arguments, the actions walk the     *)
(* body of calc_who_zscore (and of _lookup_lms) in program order.          *)
(*                                                                         *)
(* Floats are modelled in decimal fixed point: a real x is the integer     *)
(* x * Scale, every arithmetic operation truncates its result to that      *)
(* grid.  ** , np.log and np.exp are computed, by series, to that          *)
(* precision.  Ages and sex codes are carried in tenths, the returned      *)
(* z-score in hundredths (the grid round(z, 2) produces).                  *)
(***************************************************************************)
EXTENDS Integers, Sequences, FiniteSets, TLC

\* ------------------------------------------------------------------------
\* Fixed-point arithmetic standing for Python float arithmetic
\* ------------------------------------------------------------------------

\* one unit of the fixed-point grid: 1.0 == Scale
Scale == 1000000

\* half of the digits of Scale, used to multiply without leaving 32 bits
Half == 1000

Abs(x) == IF x < 0 THEN -x ELSE x

Sgn(x) == IF x < 0 THEN -1 ELSE IF x > 0 THEN 1 ELSE 0

\* a real number given in thousandths, e.g. Milli(-1500) is -1.5
Milli(n) == n * Half

\* floor(a * b / Scale) for a, b >= 0
MulAbs(a, b) ==
  LET a1 == a \div Half
      a0 == a % Half
      b1 == b \div Half
      b0 == b % Half
  IN  a1 * b1 + ((a1 * b0 + a0 * b1) + ((a0 * b0) \div Half)) \div Half

\* float multiplication a * b
FMul(a, b) == Sgn(a) * Sgn(b) * MulAbs(Abs(a), Abs(b))

\* the n leading fractional decimal digits of r / b, for 0 <= r < b
RECURSIVE FracDigits(_, _, _)
FracDigits(r, b, n) ==
  IF n = 0 THEN 0
  ELSE ((r * 10) \div b) * (10 ^ (n - 1)) + FracDigits((r * 10) % b, b, n - 1)

\* floor(a * Scale / b) for a >= 0, b > 0
DivAbs(a, b) == (a \div b) * Scale + FracDigits(a % b, b, 6)

\* float division a / b, b # 0 (Python raises ZeroDivisionError on b = 0,
\* which the callers test before dividing)
FDiv(a, b) == Sgn(a) * Sgn(b) * DivAbs(Abs(a), Abs(b))

\* sum of the Taylor series of exp from the term `term` (= x^(k-1)/(k-1)!) on
RECURSIVE ExpSum(_, _, _)
ExpSum(x, term, k) ==
  IF term = 0 \/ k > 60 THEN 0
  ELSE term + ExpSum(x, MulAbs(term, x) \div k, k + 1)

\* np.exp(x)
Exp(x) == IF x >= 0 THEN ExpSum(x, Scale, 1)
          ELSE DivAbs(Scale, ExpSum(-x, Scale, 1))

\* sum of t^(2k+1)/(2k+1), pw = t^(2k+1), t2 = t^2
RECURSIVE AtanhSum(_, _, _)
AtanhSum(pw, t2, k) ==
  IF pw = 0 \/ k > 60 THEN 0
  ELSE (pw \div (2 * k + 1)) + AtanhSum(MulAbs(pw, t2), t2, k + 1)

\* ln(y) for y >= 1.0, as 2 * atanh((y - 1) / (y + 1))
LnGe1(y) ==
  LET t == DivAbs(y - Scale, y + Scale)
  IN  2 * AtanhSum(t, MulAbs(t, t), 0)

\* np.log(y) for y > 0
Ln(y) == IF y >= Scale THEN LnGe1(y) ELSE -LnGe1(DivAbs(Scale, y))

\* b ** e for a float base b > 0
Pow(b, e) == Exp(FMul(e, Ln(b)))


\* round(x, 2) of a finite float: the nearest hundredth, ties to even;
\* the result is counted in hundredths
Round2(x) ==
  LET q == Abs(x) \div (Scale \div 100)
      r == Abs(x) % (Scale \div 100)
      h == (Scale \div 100) \div 2
  IN  Sgn(x) * (IF r > h \/ (r = h /\ q % 2 = 1) THEN q + 1 ELSE q)

\* variant of RoundHalfEven: ties rounded up, away from zero for ages
RoundHalfUp(x10) == (x10 + 5) \div 10

\* round(x) of a float given in tenths: the nearest integer, ties to even
RoundHalfEven(x10) ==
  LET q == x10 \div 10
      r == x10 % 10
  IN  IF r < 5 THEN q
      ELSE IF r > 5 THEN q + 1
      ELSE IF q % 2 = 0 THEN q ELSE q + 1

\* int(x) of a number given in tenths: truncation towards zero
IntTrunc(x10) == Sgn(x10) * (Abs(x10) \div 10)

\* ------------------------------------------------------------------------
\* Values
\* ------------------------------------------------------------------------

\* an argument of a call: a number v, a missing value (None, NaN) or a
\* non-numeric string
NumArg(v) == [kind |-> "num", v |-> v]

MissingArg == [kind |-> "missing", v |-> 0]

StrArg == [kind |-> "str", v |-> 0]

\* outcomes of a float computation and of a call
Val(kind, v, exc) == [kind |-> kind, v |-> v, exc |-> exc]

Num(v) == Val("num", v, "")

\* np.nan, the Undefined sentinel
NaN == Val("nan", 0, "")

\* +inf (sign 1) or -inf (sign -1)
Inf(sign) == Val("inf", sign, "")

\* a complex number, what ** gives for a negative base and a fractional power
Complex == Val("complex", 0, "")

\* an exception leaving the call
Raise(exc) == Val("raise", 0, exc)

\* no value yet
Pending == Val("pending", 0, "")

\* ------------------------------------------------------------------------
\* Reference tables (who_bmi_for_age_lms.csv, who_height_for_age_lms.csv)
\* ------------------------------------------------------------------------

\* The csv files are data outside the source; the model loads one of three
\* data sets.  "who": well-formed rows for both sexes and every month of
\* FirstRow..LastRow (one month more than the window on either side, the
\* real files carry month 60).  "gap": the same with some rows absent.
\* "bad": the same with malformed rows (M or S zero or negative).
TableNames == {"who", "gap", "bad"}

FirstRow == 60

LastRow == 229

\* the row of the well-formed BMI-for-age table: L < 0 as in the WHO data,
\* and L = 0 from month 200 on
WhoBfaRow(sex_int, age_int) ==
  [l |-> IF age_int >= 200 THEN 0
         ELSE IF sex_int = 1 THEN Milli(-1500) ELSE Milli(-1200),
   m |-> Milli(15000 + 20 * age_int + 300 * (sex_int - 1)),
   s |-> IF sex_int = 1 THEN Milli(100) ELSE Milli(120)]

\* the row of the well-formed height-for-age table: L = 1 as in the WHO
\* data, and L = 0 from month 200 on
WhoHfaRow(sex_int, age_int) ==
  [l |-> IF age_int >= 200 THEN 0 ELSE Milli(1000),
   m |-> Milli(80000 + 400 * age_int - 1000 * (sex_int - 1)),
   s |-> IF sex_int = 1 THEN Milli(45) ELSE Milli(40)]

WhoRow(indicator, sex_int, age_int) ==
  IF indicator = "bfa" THEN WhoBfaRow(sex_int, age_int)
  ELSE WhoHfaRow(sex_int, age_int)

\* the malformed rows of the data set "bad"
BadRow(indicator, sex_int, age_int) ==
  LET w == WhoRow(indicator, sex_int, age_int)
  IN  CASE age_int = 61  -> [w EXCEPT !.m = 0]
        [] age_int = 62  -> [w EXCEPT !.s = 0]
        [] age_int = 100 -> [w EXCEPT !.m = -w.m]
        [] age_int = 101 -> [w EXCEPT !.s = -w.s]
        [] age_int = 227 -> [w EXCEPT !.s = 0]
        [] age_int = 228 -> [w EXCEPT !.m = -w.m]
        [] OTHER -> w

\* the index of a loaded table: the (sex, age) keys that have a row
TableKeys(t, indicator) ==
  LET all == {1, 2} \X (FirstRow..LastRow)
  IN  IF t = "gap"
      THEN all \ {<<1, 100>>, <<2, 101>>, <<1, 228>>, <<2, 61>>}
      ELSE all

\* the row of a loaded table at a key of its index
TableRow(t, indicator, sex_int, age_int) ==
  IF t = "bad" THEN BadRow(indicator, sex_int, age_int)
  ELSE WhoRow(indicator, sex_int, age_int)

\* line 66: every indicator other than "bfa" selects the height table
SelectTable(indicator) == IF indicator = "bfa" THEN "bfa" ELSE "hfa"

\* ------------------------------------------------------------------------
\* _lookup_lms
\* ------------------------------------------------------------------------

\* variant of OutOfWindow: the window starts at the first month of the files
OutOfWindow_from60(age_int) == age_int < 60 \/ age_int > 228

\* line 71: the rounded age lies outside the supported window
OutOfWindow(age_int) == age_int < 61 \/ age_int > 228

\* line 75: the truncated sex code is a supported one
ValidSex(sex_int) == sex_int \in {1, 2}

\* the outcome of a lookup: kind "row" with the triple, kind "none"
\* (return None) or kind "raise"; age_int and sex_int are the locals, why
\* names the return taken
Looked(kind, why, age_int, sex_int, row) ==
  [kind |-> kind, why |-> why, age_int |-> age_int, sex_int |-> sex_int,
   l |-> row.l, m |-> row.m, s |-> row.s]

NoRow == [l |-> 0, m |-> 0, s |-> 0]

\* _lookup_lms(sex, age_months, indicator) against the loaded table t
lookup_lms(t, sex, age_months, indicator) ==
  IF age_months.kind # "num"
  THEN Looked("raise", "TypeError", 0, 0, NoRow)
  ELSE LET age_int == RoundHalfEven(age_months.v)
       IN  IF OutOfWindow(age_int)
           THEN Looked("none", "age", age_int, 0, NoRow)
           ELSE IF sex.kind # "num"
           THEN Looked("raise",
                       IF sex.kind = "str" THEN "ValueError" ELSE "TypeError",
                       age_int, 0, NoRow)
           ELSE LET sex_int == IntTrunc(sex.v)
                IN  IF ~ValidSex(sex_int)
                    THEN Looked("none", "sex", age_int, sex_int, NoRow)
                    ELSE IF <<sex_int, age_int>> \in
                              TableKeys(t, SelectTable(indicator))
                    THEN Looked("row", "found", age_int, sex_int,
                                TableRow(t, SelectTable(indicator),
                                         sex_int, age_int))
                    ELSE Looked("none", "KeyError", age_int, sex_int, NoRow)

\* ------------------------------------------------------------------------
\* calc_who_zscore
\* ------------------------------------------------------------------------

\* pd.isna(x)
pd_isna(x) == x.kind = "missing"

\* line 106: one of the three arguments is missing
InputMissing(measurement, age_months, sex) ==
  pd_isna(measurement) \/ pd_isna(age_months) \/ pd_isna(sex)

\* variant of NonPositive: a zero measurement is let through
NonPositive_strict(x) == x < 0

\* line 109: float(measurement) <= 0
NonPositive(x) == x <= 0

\* what b ** e is for floats b and e: a real, a complex number (negative
\* base, fractional power) or a ZeroDivisionError (zero to a negative power)
PowKind(b, e) ==
  IF b > 0 THEN "real"
  ELSE IF b = 0 THEN (IF e < 0 THEN "zerodiv" ELSE "real")
  ELSE IF e % Scale = 0 THEN "real" ELSE "complex"

\* b ** e where PowKind(b, e) = "real"
PowVal(b, e) ==
  IF b > 0 THEN Pow(b, e)
  ELSE IF b = 0 THEN (IF e = 0 THEN Scale ELSE 0)
  ELSE (IF (e \div Scale) % 2 = 0 THEN 1 ELSE -1) * Pow(-b, e)

\* variant of lms_z: the "- 1" of the Box-Cox transform is left out
lms_z_noshift(L, M, S, X) ==
  IF M = 0 THEN Raise("ZeroDivisionError")
  ELSE LET r == FDiv(X, M)
       IN  IF L # 0
           THEN CASE PowKind(r, L) = "zerodiv" -> Raise("ZeroDivisionError")
                  [] FMul(L, S) = 0 -> Raise("ZeroDivisionError")
                  [] PowKind(r, L) = "complex" -> Complex
                  [] OTHER -> Num(FDiv(PowVal(r, L), FMul(L, S)))
           ELSE CASE r < 0 -> NaN
                  [] r = 0 -> IF S < 0 THEN Inf(1) ELSE Inf(-1)
                  [] S = 0 -> Inf(1)
                  [] OTHER -> Num(FDiv(Scale + Ln(r), S))

\* lines 121-124: the standard LMS value of X
lms_z(L, M, S, X) ==
  IF M = 0 THEN Raise("ZeroDivisionError")
  ELSE LET r == FDiv(X, M)
       IN  IF L # 0
           THEN CASE PowKind(r, L) = "zerodiv" -> Raise("ZeroDivisionError")
                  [] FMul(L, S) = 0 -> Raise("ZeroDivisionError")
                  [] PowKind(r, L) = "complex" -> Complex
                  [] OTHER -> Num(FDiv(PowVal(r, L) - Scale, FMul(L, S)))
           ELSE CASE r < 0 -> NaN
                  [] r = 0 -> IF S < 0 THEN Inf(1) ELSE Inf(-1)
                  [] S = 0 -> IF Ln(r) = 0 THEN NaN ELSE Inf(Sgn(Ln(r)))
                  [] OTHER -> Num(FDiv(Ln(r), S))

\* lines 130-138: the measurement at k standard deviations,
\* M * (1 + L*S*k) ** (1/L), or M * exp(S*k) when L = 0
SDCutoff(L, M, S, k) ==
  IF L # 0
  THEN LET b == Scale + FMul(L, S) * k
           e == FDiv(Scale, L)
       IN  CASE PowKind(b, e) = "zerodiv" -> Raise("ZeroDivisionError")
             [] PowKind(b, e) = "complex" -> Complex
             [] OTHER -> Num(FMul(M, PowVal(b, e)))
  ELSE Num(FMul(M, Exp(S * k)))

\* line 128: abs(z) > 3
AbsAbove3(z) ==
  CASE z.kind = "num" -> Abs(z.v) > 3 * Scale
    [] z.kind = "inf" -> TRUE
    [] OTHER -> FALSE

\* variant of NeedsCorrection: the indicator is not looked at
NeedsCorrection_any(indicator, z) == AbsAbove3(z)

\* line 128: the restricted approach applies
NeedsCorrection(indicator, z) == indicator = "bfa" /\ AbsAbove3(z)

\* variant of Extrapolate: the anchor (3 or -3) is left out
Extrapolate_noanchor(L, anchor, X, SD3, SD23) ==
  IF SD23 # 0 THEN Num(FDiv(X - SD3, SD23))
  ELSE IF L # 0 THEN Raise("ZeroDivisionError")
  ELSE IF X = SD3 THEN NaN
  ELSE Inf(Sgn(X - SD3))

\* lines 142 and 145: anchor + (X - SD3) / SD23; the quotient is a Python
\* float division when L # 0 and a numpy one when L = 0
Extrapolate(L, anchor, X, SD3, SD23) ==
  IF SD23 # 0 THEN Num(anchor + FDiv(X - SD3, SD23))
  ELSE IF L # 0 THEN Raise("ZeroDivisionError")
  ELSE IF X = SD3 THEN NaN
  ELSE Inf(Sgn(X - SD3))

\* variant of CorrectedPos: the difference SD23pos is taken the other way
CorrectedPos_swapped(L, M, S, X) ==
  LET SD3pos == SDCutoff(L, M, S, 3)
      SD2pos == SDCutoff(L, M, S, 2)
  IN  IF SD3pos.kind = "complex" \/ SD2pos.kind = "complex" THEN Complex
      ELSE Extrapolate(L, 3 * Scale, X, SD3pos.v, SD2pos.v - SD3pos.v)

\* lines 141-142: the branch z > 3
CorrectedPos(L, M, S, X) ==
  LET SD3pos == SDCutoff(L, M, S, 3)
      SD2pos == SDCutoff(L, M, S, 2)
  IN  IF SD3pos.kind = "complex" \/ SD2pos.kind = "complex" THEN Complex
      ELSE Extrapolate(L, 3 * Scale, X, SD3pos.v, SD3pos.v - SD2pos.v)

\* variant of CorrectedNeg: the difference SD23neg is taken the other way
CorrectedNeg_swapped(L, M, S, X) ==
  LET SD3neg == SDCutoff(L, M, S, -3)
      SD2neg == SDCutoff(L, M, S, -2)
  IN  IF SD3neg.kind = "complex" \/ SD2neg.kind = "complex" THEN Complex
      ELSE Extrapolate(L, -3 * Scale, X, SD3neg.v, SD3neg.v - SD2neg.v)

\* lines 144-145: the branch z < -3
CorrectedNeg(L, M, S, X) ==
  LET SD3neg == SDCutoff(L, M, S, -3)
      SD2neg == SDCutoff(L, M, S, -2)
  IN  IF SD3neg.kind = "complex" \/ SD2neg.kind = "complex" THEN Complex
      ELSE Extrapolate(L, -3 * Scale, X, SD3neg.v, SD2neg.v - SD3neg.v)

\* z > 3 and z < -3 of lines 140 and 143
Above3(z) == (z.kind = "num" /\ z.v > 3 * Scale) \/ (z.kind = "inf" /\ z.v > 0)

Below3(z) == (z.kind = "num" /\ z.v < -3 * Scale) \/ (z.kind = "inf" /\ z.v < 0)

\* lines 128-145: the WHO restricted approach applied to the raw z
restricted(indicator, z, L, M, S, X) ==
  IF ~NeedsCorrection(indicator, z) THEN z
  ELSE IF \E k \in {3, -3, 2, -2} : SDCutoff(L, M, S, k).kind = "raise"
  THEN Raise("ZeroDivisionError")
  ELSE IF Above3(z) THEN CorrectedPos(L, M, S, X)
  ELSE IF Below3(z) THEN CorrectedNeg(L, M, S, X)
  ELSE z

\* line 147: round(z, 2); a complex z has no __round__
round_result(z) ==
  CASE z.kind = "num" -> Num(Round2(z.v))
    [] z.kind = "complex" -> Raise("TypeError")
    [] OTHER -> z

\* calc_who_zscore(measurement, age_months, sex, indicator) against the
\* loaded table t: the value returned or the exception raised
calc_who_zscore(t, measurement, age_months, sex, indicator) ==
  IF InputMissing(measurement, age_months, sex) THEN NaN
  ELSE IF measurement.kind # "num" THEN Raise("ValueError")
  ELSE IF NonPositive(measurement.v) THEN NaN
  ELSE LET lms == lookup_lms(t, sex, age_months, indicator)
       IN  IF lms.kind = "raise" THEN Raise(lms.why)
           ELSE IF lms.kind = "none" THEN NaN
           ELSE LET z == lms_z(lms.l, lms.m, lms.s, measurement.v)
                IN  IF z.kind = "raise" THEN z
                    ELSE LET zc == restricted(indicator, z, lms.l, lms.m,
                                              lms.s, measurement.v)
                         IN  IF zc.kind = "raise" THEN zc
                             ELSE round_result(zc)

\* ------------------------------------------------------------------------
\* The calls explored
\* ------------------------------------------------------------------------

\* number of steps of the measurement grids
GridN == 6

\* half-months explored on either side of the months 61, 100 and 228
AgeSpan == 3

\* BMI values 10, 14, ... kg/m2 and heights 90, 110, ... cm
MeasurementGrid ==
  {Milli(10000 + 4000 * i) : i \in 0..GridN} \cup
  {Milli(90000 + 20000 * i) : i \in 0..GridN}

\* a small step of the measurement, 0.001
Near == Milli(1)

\* the measurements tied to a well-formed row: its median, the cutoffs at
\* +3 and -3 standard deviations, and their close neighbours
RowMeasurements(L, M, S) ==
  LET p == SDCutoff(L, M, S, 3)
      n == SDCutoff(L, M, S, -3)
  IN  {M, M + Near} \cup
      (IF p.kind = "num" THEN {p.v - Near, p.v, p.v + Near} ELSE {}) \cup
      (IF n.kind = "num" THEN {n.v - Near, n.v, n.v + Near} ELSE {})

\* the measurements tried with the other arguments of a call
Measurements(t, age_months, sex, indicator) ==
  LET lms == lookup_lms(t, sex, age_months, indicator)
  IN  MeasurementGrid \cup {0, Milli(-5000)} \cup
      (IF lms.kind = "row" /\ lms.m > 0 /\ lms.s > 0
       THEN RowMeasurements(lms.l, lms.m, lms.s) ELSE {})

MeasurementArgs(t, age_months, sex, indicator) ==
  {NumArg(x) : x \in Measurements(t, age_months, sex, indicator)} \cup
  {MissingArg, StrArg}

\* ages in tenths of a month: every half month around the edges of the
\* window and around month 100, and two ages far outside
Ages ==
  {(2 * c + d) * 5 : c \in {61, 100, 228}, d \in (-AgeSpan)..AgeSpan} \cup
  {300, 2400}

AgeArgs == {NumArg(a) : a \in Ages} \cup {MissingArg}

\* sex codes in tenths: 0, 1, 1.5, 2, 2.9, 3
Sexes == {0, 10, 15, 20, 29, 30}

SexArgs == {NumArg(s) : s \in Sexes} \cup {MissingArg, StrArg}

Indicators == {"bfa", "hfa"}

\* ------------------------------------------------------------------------
\* State
\* ------------------------------------------------------------------------

VARIABLES
  table,        \* the reference data loaded at import (lines 56-61)
  measurement,  \* the arguments of the call
  age_months,
  sex,
  indicator,
  pc,           \* the position in calc_who_zscore
  lms,          \* line 113: the outcome of _lookup_lms
  zraw,         \* lines 121-124: z of the standard LMS formula
  z,            \* z after lines 128-145
  result        \* the value returned, or the exception raised

vars == <<table, measurement, age_months, sex, indicator, pc, lms, zraw, z,
          result>>

args == <<table, measurement, age_months, sex, indicator>>

NotLooked == Looked("pending", "", 0, 0, NoRow)

Init ==
  /\ table \in TableNames
  /\ age_months \in AgeArgs
  /\ sex \in SexArgs
  /\ indicator \in Indicators
  /\ measurement \in MeasurementArgs(table, age_months, sex, indicator)
  /\ pc = "check"
  /\ lms = NotLooked
  /\ zraw = Pending
  /\ z = Pending
  /\ result = Pending

\* return v, or leave by the exception v
Return(v) ==
  /\ result' = v
  /\ pc' = "done"

\* lines 105-110: the preconditions
CheckInputs ==
  /\ pc = "check"
  /\ IF InputMissing(measurement, age_months, sex) THEN Return(NaN)
     ELSE IF measurement.kind # "num" THEN Return(Raise("ValueError"))
     ELSE IF NonPositive(measurement.v) THEN Return(NaN)
     ELSE pc' = "lookup" /\ UNCHANGED result
  /\ UNCHANGED <<args, lms, zraw, z>>

\* lines 112-115: the lookup
LookupLms ==
  /\ pc = "lookup"
  /\ lms' = lookup_lms(table, sex, age_months, indicator)
  /\ IF lms'.kind = "raise" THEN Return(Raise(lms'.why))
     ELSE IF lms'.kind = "none" THEN Return(NaN)
     ELSE pc' = "lms" /\ UNCHANGED result
  /\ UNCHANGED <<args, zraw, z>>

\* lines 117-124: the standard LMS formula
StandardLms ==
  /\ pc = "lms"
  /\ zraw' = lms_z(lms.l, lms.m, lms.s, measurement.v)
  /\ IF zraw'.kind = "raise" THEN Return(zraw')
     ELSE pc' = "restrict" /\ UNCHANGED result
  /\ UNCHANGED <<args, lms, z>>

\* lines 126-145: the restricted approach
Restrict ==
  /\ pc = "restrict"
  /\ z' = restricted(indicator, zraw, lms.l, lms.m, lms.s, measurement.v)
  /\ IF z'.kind = "raise" THEN Return(z')
     ELSE pc' = "round" /\ UNCHANGED result
  /\ UNCHANGED <<args, lms, zraw>>

\* line 147: the rounded result
ReturnRounded ==
  /\ pc = "round"
  /\ Return(round_result(z))
  /\ UNCHANGED <<args, lms, zraw, z>>

Next ==
  \/ CheckInputs
  \/ LookupLms
  \/ StandardLms
  \/ Restrict
  \/ ReturnRounded

Spec == Init /\ [][Next]_vars

\* the steps agree with the function taken as a whole
StepsAgree ==
  pc = "done" =>
    result = calc_who_zscore(table, measurement, age_months, sex, indicator)

\* ------------------------------------------------------------------------
\* Properties
\* ------------------------------------------------------------------------

\* the call has returned or raised
Done == pc = "done"

\* the three checked arguments are present and the measurement is a
\* positive number
PositiveCall ==
  /\ ~(measurement.kind = "missing" \/ age_months.kind = "missing"
       \/ sex.kind = "missing")
  /\ measurement.kind = "num"
  /\ measurement.v > 0

\* the sex code is exactly 1 or exactly 2
ExactSex == sex \in {NumArg(10), NumArg(20)}

\* the lookup found a row with positive M and S
GoodRow == lms.kind = "row" /\ lms.m > 0 /\ lms.s > 0

\* the loaded table has a well-formed row for both sexes and every month
\* of the window, for both indicators
CompleteTable ==
  \A i \in Indicators, k \in {1, 2} \X (61..228) :
    /\ k \in TableKeys(table, i)
    /\ TableRow(table, i, k[1], k[2]).m > 0
    /\ TableRow(table, i, k[1], k[2]).s > 0

\* the LMS formula as the specification writes it, for M > 0 and S > 0:
\* ((X/M)^L - 1) / (L*S), or ln(X/M) / S when L = 0
SpecLms(L, M, S, X) ==
  IF L # 0 THEN FDiv(Pow(FDiv(X, M), L) - Scale, FMul(L, S))
  ELSE FDiv(Ln(FDiv(X, M)), S)

\* the cutoff SDk as the specification writes it, for 1 + L*S*k > 0
SpecSD(L, M, S, k) ==
  IF L # 0 THEN FMul(M, Pow(Scale + FMul(L, S) * k, FDiv(Scale, L)))
  ELSE FMul(M, Exp(S * k))

\* C1: a call with measurement, age_months or sex missing, or with
\* measurement <= 0, returns NaN whatever the other arguments are, and
\* returns it before the lookup and before any arithmetic.
C1_PreconditionsGiveNaN ==
  (Done /\ (\/ measurement.kind = "missing"
            \/ age_months.kind = "missing"
            \/ sex.kind = "missing"
            \/ (measurement.kind = "num" /\ measurement.v <= 0)))
  => (result = NaN /\ lms = NotLooked /\ zraw = Pending /\ z = Pending)

\* a non-positive measurement with an unusable sex and an age outside the
\* window has returned NaN
C1_Witness ==
  /\ Done
  /\ measurement = NumArg(0)
  /\ sex = StrArg
  /\ age_months = NumArg(300)
  /\ result = NaN

C3_InvalidSexGivesNaN ==
  (Done /\ PositiveCall /\ ~ExactSex /\ age_months.kind = "num"
   /\ RoundHalfEven(age_months.v) \in 61..228)
  => (result = NaN /\ lms.kind # "row")

\* C4: for bmi_for_age and a well-formed row the result is the rounded raw
\* LMS z when |z| <= 3, the rounded 3 + (X - SD3pos)/(SD3pos - SD2pos) when
\* z > 3 and the rounded -3 + (X - SD3neg)/(SD2neg - SD3neg) when z < -3.
C4_BmiCorrection ==
  (Done /\ PositiveCall /\ indicator = "bfa" /\ GoodRow)
  => LET X == measurement.v
         raw == SpecLms(lms.l, lms.m, lms.s, X)
         SD3pos == SpecSD(lms.l, lms.m, lms.s, 3)
         SD2pos == SpecSD(lms.l, lms.m, lms.s, 2)
         SD3neg == SpecSD(lms.l, lms.m, lms.s, -3)
         SD2neg == SpecSD(lms.l, lms.m, lms.s, -2)
     IN  /\ zraw = Num(raw)
         /\ (raw <= 3 * Scale /\ raw >= -3 * Scale)
              => result = Num(Round2(raw))
         /\ raw > 3 * Scale
              => result = Num(Round2(3 * Scale
                                     + FDiv(X - SD3pos, SD3pos - SD2pos)))
         /\ raw < -3 * Scale
              => result = Num(Round2(-3 * Scale
                                     + FDiv(X - SD3neg, SD2neg - SD3neg)))

\* a bmi_for_age call with raw z above 3 has returned the corrected value
C4_Witness ==
  /\ Done /\ indicator = "bfa" /\ GoodRow
  /\ zraw.kind = "num" /\ zraw.v > 3 * Scale
  /\ result.kind = "num" /\ result # Num(Round2(zraw.v))

\* C5: for height_for_age and a well-formed row the result is the rounded
\* standard LMS value, also when the raw |z| is above 3.
C5_HeightUncorrected ==
  (Done /\ PositiveCall /\ indicator = "hfa" /\ GoodRow)
  => result = Num(Round2(SpecLms(lms.l, lms.m, lms.s, measurement.v)))

\* a height_for_age call with raw z below -3 has returned
C5_Witness ==
  /\ Done /\ indicator = "hfa" /\ GoodRow
  /\ zraw.kind = "num" /\ zraw.v < -3 * Scale
  /\ result.kind = "num"

\* the value returned for another measurement with the arguments of the
\* call otherwise unchanged
OtherResult(X2) ==
  calc_who_zscore(table, NumArg(X2), age_months, sex, indicator)

\* the positive measurements above the measurement of the call
Larger ==
  {X2 \in Measurements(table, age_months, sex, indicator) :
     X2 > measurement.v}

\* C6 as stated: for a fixed well-formed cell the returned z-score is
\* strictly increasing in the measurement, after the rounding.
C6_StrictlyIncreasing ==
  (Done /\ PositiveCall /\ ExactSex /\ GoodRow)
  => \A X2 \in Larger :
       /\ OtherResult(X2).kind = "num"
       /\ result.v < OtherResult(X2).v

\* C6 amended: for a fixed well-formed cell the returned z-score is
\* non-decreasing in the measurement.
C6_NonDecreasing ==
  (Done /\ PositiveCall /\ ExactSex /\ GoodRow)
  => \A X2 \in Larger :
       /\ OtherResult(X2).kind = "num"
       /\ result.v <= OtherResult(X2).v

\* a bmi_for_age call below -3 has returned, and both a measurement with
\* the same result and one with a larger result lie above it
C6_Witness ==
  /\ Done /\ PositiveCall /\ ExactSex /\ GoodRow
  /\ indicator = "bfa"
  /\ zraw.kind = "num" /\ zraw.v < -3 * Scale
  /\ \E X2 \in Larger : OtherResult(X2) = result
  /\ \E X2 \in Larger : OtherResult(X2).kind = "num"
                        /\ OtherResult(X2).v > 300

\* C7: a measurement equal to the median M of a well-formed row gives
\* exactly 0.00, without the correction being taken.
C7_MedianGivesZero ==
  (Done /\ PositiveCall /\ GoodRow /\ measurement.v = lms.m)
  => (result = Num(0) /\ z = zraw)

\* the median of a row with L # 0 has returned 0.00
C7_Witness ==
  /\ Done /\ PositiveCall /\ ExactSex /\ GoodRow
  /\ measurement.v = lms.m
  /\ lms.l # 0
  /\ result = Num(0)

\* C8: a row with M <= 0 or S <= 0 is treated as a failed lookup: the
\* call returns NaN and raises nothing.
C8_MalformedRowGivesNaN ==
  (Done /\ PositiveCall /\ lms.kind = "row" /\ (lms.m <= 0 \/ lms.s <= 0))
  => result = NaN

\* the distance between two results counted in hundredths
Dist(a, b) == Abs(a - b)

\* C9: for bmi_for_age the corrected formula evaluates to 3 at X = SD3pos
\* and to -3 at X = SD3neg, the measurements whose raw z is 3 and -3, and
\* the returned value does not jump there: it is 3.00 (-3.00) at the
\* cutoff and within 0.01 of it one small step to either side.
C9_ContinuousAtCutoffs ==
  (Done /\ PositiveCall /\ indicator = "bfa" /\ GoodRow)
  => LET X == measurement.v
         SD3pos == SpecSD(lms.l, lms.m, lms.s, 3)
         SD3neg == SpecSD(lms.l, lms.m, lms.s, -3)
     IN  /\ CorrectedPos(lms.l, lms.m, lms.s, SD3pos) = Num(3 * Scale)
         /\ CorrectedNeg(lms.l, lms.m, lms.s, SD3neg) = Num(-3 * Scale)
         /\ Round2(SpecLms(lms.l, lms.m, lms.s, SD3pos)) = 300
         /\ Round2(SpecLms(lms.l, lms.m, lms.s, SD3neg)) = -300
         /\ X = SD3pos => result = Num(300)
         /\ X = SD3neg => result = Num(-300)
         /\ Abs(X - SD3pos) <= Near
              => (result.kind = "num" /\ Dist(result.v, 300) <= 1)
         /\ Abs(X - SD3neg) <= Near
              => (result.kind = "num" /\ Dist(result.v, -300) <= 1)

\* a bmi_for_age call one small step above SD3pos has taken the corrected
\* branch and returned 3.00
C9_Witness ==
  /\ Done /\ PositiveCall /\ indicator = "bfa" /\ GoodRow
  /\ measurement.v = SpecSD(lms.l, lms.m, lms.s, 3) + Near
  /\ zraw.kind = "num" /\ zraw.v > 3 * Scale
  /\ z # zraw
  /\ result = Num(300)

\* the lookup has rounded the age
AgeRounded == Done /\ PositiveCall /\ age_months.kind = "num"
              /\ lms.kind \in {"row", "none"}

\* the age of the call is k + 0.5 for an integer k >= 0
HalfAge == age_months.v >= 0 /\ age_months.v % 10 = 5

\* C10 as stated: an age of k + 0.5 is looked up as k + 1; 60.5 is looked
\* up at month 61 and gives a number, 228.5 at month 229 and gives NaN,
\* 100.5 uses the row of month 101.
C10_TiesAwayFromZero ==
  (AgeRounded /\ HalfAge)
  => /\ lms.age_int = (age_months.v + 5) \div 10
     /\ (ExactSex /\ CompleteTable /\ age_months.v = 605)
          => result.kind = "num"
     /\ (ExactSex /\ CompleteTable /\ age_months.v = 2285)
          => result = NaN

\* C10 amended: the age is rounded to the nearest integer with ties to the
\* even one: k + 0.5 is looked up as k for even k and as k + 1 for odd k;
\* 60.5 is looked up at month 60 and gives NaN, 228.5 at month 228 and
\* gives a number, 100.5 uses the row of month 100.
C10_TiesToEven ==
  (AgeRounded /\ HalfAge)
  => LET k == (age_months.v - 5) \div 10
     IN  /\ lms.age_int = (IF k % 2 = 0 THEN k ELSE k + 1)
         /\ (ExactSex /\ CompleteTable /\ age_months.v = 605)
              => (lms.age_int = 60 /\ result = NaN)
         /\ (ExactSex /\ CompleteTable /\ age_months.v = 2285)
              => (lms.age_int = 228 /\ result.kind = "num")
         /\ (ExactSex /\ CompleteTable /\ age_months.v = 1005)
              => /\ lms.age_int = 100
                 /\ lms.m = TableRow(table, SelectTable(indicator),
                                     IntTrunc(sex.v), 100).m

\* a call at age 228.5 has used the row of month 228 and returned a number
C10_Witness ==
  /\ AgeRounded /\ ExactSex /\ CompleteTable
  /\ age_months = NumArg(2285)
  /\ lms.age_int = 228
  /\ result.kind = "num"

====
